---- MODULE Spec2Model ----
(***************************************************************************)
(* A model of RevelScraper (src/RevelScraper.py): the pagination loop of   *)
(* scrape_content, the per-page classifier extract_content with its list   *)
(* title resolution, the output assembler write_content_to_file and the    *)
(* title normalizer clean_page_title.                                      *)
(*                                                                         *)
(* Text is a sequence of one-character strings, so that substring tests,   *)
(* replacement, the date regular expression and strip() are computed the   *)
(* way Python computes them.                                               *)
(***************************************************************************)
EXTENDS Integers, Sequences, FiniteSets, TLC

(***************************************************************************)
(* Bounds of the model.                                                    *)
(***************************************************************************)
\* longest raw page identity fed to clean_page_title, in tokens
MaxTokens == 4

\* most nodes in the document of one page
MaxNodes == 4

\* most pages in the viewer's page sequence
MaxPages == 3

(***************************************************************************)
(* Python string primitives.                                               *)
(***************************************************************************)
\* str.isspace() characters that the model's texts can hold
Whitespace == {" ", "\t", "\n"}

\* the characters matched by \d
Digits == {"0", "1", "2", "3", "4", "5", "6", "7", "8", "9"}

\* t occurs in s starting at index i
OccursAt(s, t, i) ==
    /\ i >= 1
    /\ i + Len(t) - 1 <= Len(s)
    /\ SubSeq(s, i, i + Len(t) - 1) = t

\* Python's  t in s
Contains(s, t) == \E i \in 1..(Len(s) + 1) : OccursAt(s, t, i)

\* s[i:] in Python's 0-based slice, here: drop the first n characters
Drop(s, n) == SubSeq(s, n + 1, Len(s))

\* Python's  s.replace(t, "")  for a non-empty t: leftmost, non-overlapping
RECURSIVE RemoveAll(_, _)
RemoveAll(s, t) ==
    IF Len(s) < Len(t) THEN s
    ELSE IF OccursAt(s, t, 1) THEN RemoveAll(Drop(s, Len(t)), t)
    ELSE <<Head(s)>> \o RemoveAll(Tail(s), t)

RECURSIVE LStrip(_)
LStrip(s) == IF s # <<>> /\ Head(s) \in Whitespace THEN LStrip(Tail(s)) ELSE s

RECURSIVE RStrip(_)
RStrip(s) ==
    IF s # <<>> /\ s[Len(s)] \in Whitespace THEN RStrip(SubSeq(s, 1, Len(s) - 1)) ELSE s

\* Python's  s.strip()
Strip(s) == RStrip(LStrip(s))

\* length of the longest prefix of s made of characters of set C
RECURSIVE Run(_, _)
Run(s, C) == IF s # <<>> /\ Head(s) \in C THEN 1 + Run(Tail(s), C) ELSE 0

(***************************************************************************)
(* clean_page_title                                                        *)
(***************************************************************************)
\* the content marker tested by scrape_content and removed by clean_page_title
Reading == <<"R", "e", "a", "d", "i", "n", "g">>

\* the alternation of the date pattern
Months == { <<"J","A","N">>, <<"F","E","B">>, <<"M","A","R">>, <<"A","P","R">>,
            <<"M","A","Y">>, <<"J","U","N">>, <<"J","U","L">>, <<"A","U","G">>,
            <<"S","E","P">>, <<"O","C","T">>, <<"N","O","V">>, <<"D","E","C">> }

\* length of the match of (JAN|...|DEC)\s+\d+ at the head of s, 0 when none.
\* \s+ and \d+ are greedy and their character sets are disjoint, so the
\* match, when there is one, takes every space and then every digit.
DateMatchLen(s) ==
    IF Len(s) >= 3 /\ SubSeq(s, 1, 3) \in Months
    THEN LET sp == Run(Drop(s, 3), Whitespace)
             dg == Run(Drop(s, 3 + sp), Digits)
         IN  IF sp >= 1 /\ dg >= 1 THEN 3 + sp + dg ELSE 0
    ELSE 0

\* re.sub(r'(JAN|...|DEC)\s+\d+', '', s): leftmost, non-overlapping matches
RECURSIVE SubDate(_)
SubDate(s) ==
    IF s = <<>> THEN s
    ELSE IF DateMatchLen(s) > 0 THEN SubDate(Drop(s, DateMatchLen(s)))
    ELSE <<Head(s)>> \o SubDate(Tail(s))

\* the pattern matches somewhere in s
HasDate(s) == \E i \in 1..Len(s) : DateMatchLen(Drop(s, i - 1)) > 0

\* clean_page_title without the final strip()
clean_page_title_unstripped(title) == SubDate(Strip(RemoveAll(title, Reading)))

\* title.replace("Reading", "").strip(), then the re.sub, then strip(); every
\* intermediate text is a value of its own, the element of a singleton set
clean_page_title(title) ==
    LET replaced == {RemoveAll(title, Reading)}
        stripped == {Strip(x) : x \in replaced}
        undated == {SubDate(x) : x \in stripped}
    IN  CHOOSE r \in {Strip(x) : x \in undated} : TRUE

(***************************************************************************)
(* The document of a page.  A page's document is a sequence of nodes in    *)
(* document order; a node is a record                                      *)
(*   tag    the element's tag name ("h2" stands for a heading h1..h6)      *)
(*   text   the element's text (paragraphs and headings)                   *)
(*   cls    the class attribute contains 'paragraphNumeroUno'              *)
(*   desc   the number of descendant elements                              *)
(*   items  the texts of the li descendants (lists)                        *)
(*   src, dsrc, href   the attributes src, data-src, href (<<>> = unset)   *)
(*   look   what a lookup scoped at this node meets: "ok", or the          *)
(*          reference is "stale", or the remote end reports a "timeout";   *)
(*          "error": the first read of the node after its tag name raises  *)
(*          an exception other than a stale reference; "gone": the node's  *)
(*          reference is stale for every read, the tag name included       *)
(***************************************************************************)
ListTags == {"ul", "ol"}

MediaTags == {"img", "video", "source", "audio", "iframe", "embed", "object"}

\* the tags selected by the descendant XPath of extract_content
ExtractedTags == {"p"} \cup ListTags \cup MediaTags

\* number of attempts of wait_and_find_element (its default argument)
Retries == 5

\* number of trailing blocks inspected for an already emitted list title
Lookback == 5

DefaultListTitle == <<"L", "i", "s", "t", "e", "d", " ", "I", "t", "e", "m", "s">>

\* f"### {line}"
Heading(line) == <<"#", "#", "#", " ">> \o line

\* f"- {text}"
Bullet(text) == <<"-", " ">> \o text

ImgOpen == <<"<", "i", "m", "g", " ", "s", "r", "c", "=", "'">>

ImgClose == <<"'", " ", "s", "t", "y", "l", "e", "=", "'", "m", "a", "x", "-", "w", "i", "d", "t", "h", ":", " ", "3", "5", "0", "p", "x", ";", " ", "d", "i", "s", "p", "l", "a", "y", ":", " ", "b", "l", "o", "c", "k", ";", " ", "m", "a", "r", "g", "i", "n", ":", " ", "a", "u", "t", "o", ";", "'", ">">>

\* the block of an image
ImgBlock(src) == ImgOpen \o src \o ImgClose

\* element.tag_name.capitalize()
Capitalize(tag) ==
    CASE tag = "video"  -> <<"V", "i", "d", "e", "o">>
      [] tag = "source" -> <<"S", "o", "u", "r", "c", "e">>
      [] tag = "audio"  -> <<"A", "u", "d", "i", "o">>
      [] tag = "iframe" -> <<"I", "f", "r", "a", "m", "e">>
      [] tag = "embed"  -> <<"E", "m", "b", "e", "d">>
      [] tag = "object" -> <<"O", "b", "j", "e", "c", "t">>

\* the block of any other media element: f"\n- [{media_type}: {src}]({src})\n"
LinkBlock(tag, src) ==
    <<"\n", "-", " ", "[">> \o Capitalize(tag) \o <<":", " ">> \o src
        \o <<"]", "(">> \o src \o <<")", "\n">>

MediaBlock(tag, src) == IF tag = "img" THEN ImgBlock(src) ELSE LinkBlock(tag, src)

(***************************************************************************)
(* wait_and_find_element: outcomes[k] is what attempt k meets: "found",    *)
(* "stale" (StaleElementReferenceException), "timeout" (TimeoutException)  *)
(* or "nosuch" (NoSuchElementException, which find_element on a parent     *)
(* raises when nothing matches and which the loop does not catch).  The    *)
(* result names what the call returns or raises and the attempts made.     *)
(***************************************************************************)
RECURSIVE LocateFrom(_, _, _)
LocateFrom(outcomes, attempt, retries) ==
    IF attempt >= retries THEN [res |-> "none", attempts |-> attempt]
    ELSE LET o == outcomes[attempt + 1]
         IN  IF o = "stale" /\ attempt # retries - 1
             THEN LocateFrom(outcomes, attempt + 1, retries)
             ELSE [res |-> o, attempts |-> attempt + 1]

wait_and_find_element(outcomes, retries) == LocateFrom(outcomes, 0, retries)

\* every attempt of one call meets the same outcome
Always(o) == [k \in 1..Retries |-> o]

(***************************************************************************)
(* get_list_title                                                          *)
(***************************************************************************)
\* ./preceding::p[contains(@class, 'paragraphNumeroUno')][1]
PrecedingStyled(doc, i) == {j \in 1..(i - 1) : doc[j].tag = "p" /\ doc[j].cls}

\* ./preceding::*[self::h1 or ... or self::h6][1]
PrecedingHeadings(doc, i) == {j \in 1..(i - 1) : doc[j].tag = "h2"}

Nearest(S) == CHOOSE j \in S : \A k \in S : k <= j

\* what a lookup scoped at node i meets when the XPath selects the set S
Scoped(doc, i, S) ==
    IF doc[i].look # "ok" THEN Always(doc[i].look)
    ELSE IF S = {} THEN Always("nosuch")
    ELSE Always("found")

\* [raised |-> an exception left get_list_title, title |-> the value returned]
get_list_title(doc, i) ==
    LET first == wait_and_find_element(Scoped(doc, i, PrecedingStyled(doc, i)), Retries)
    IN  IF first.res \in {"timeout", "stale"}
        THEN [raised |-> FALSE, title |-> DefaultListTitle]
        ELSE IF first.res # "found"
        THEN [raised |-> TRUE, title |-> <<>>]
        ELSE LET prev == doc[Nearest(PrecedingStyled(doc, i))]
             IN  IF prev.desc # 1
                 THEN LET second == wait_and_find_element(
                                        Scoped(doc, i, PrecedingHeadings(doc, i)), Retries)
                      IN  IF second.res \in {"timeout", "stale"}
                          THEN [raised |-> FALSE, title |-> DefaultListTitle]
                          ELSE IF second.res # "found"
                          THEN [raised |-> TRUE, title |-> <<>>]
                          ELSE [raised |-> FALSE,
                                title |-> Strip(doc[Nearest(PrecedingHeadings(doc, i))].text)]
                 ELSE [raised |-> FALSE, title |-> Strip(prev.text)]

(***************************************************************************)
(* extract_content, one element at a time.  The state of a pass is         *)
(* [page_data, processed_sources].                                         *)
(***************************************************************************)
\* the whole of page_data taken for the window
RecentIsAll(data) == data

\* page_data[-5:]
Recent(data) == SubSeq(data, IF Len(data) > Lookback THEN Len(data) - Lookback + 1 ELSE 1,
                       Len(data))

\* the loop over page_data[-5:] that sets duplicate_found
DuplicateFound(data, title) ==
    \E k \in 1..Len(Recent(data)) : Contains(Recent(data)[k], title)

\* the loop over enumerate(page_data): the first line holding the title is
\* rewritten to f"### {line}"
Promote(data, title) ==
    LET hits == {k \in 1..Len(data) : Contains(data[k], title)}
    IN  IF hits = {} THEN data
        ELSE LET i == CHOOSE k \in hits : \A m \in hits : k <= m
             IN  [data EXCEPT ![i] = Heading(data[i])]

\* the "- ..." lines of the li elements whose stripped text is not empty
RECURSIVE ListItems(_)
ListItems(items) ==
    IF items = <<>> THEN <<>>
    ELSE (IF Strip(Head(items)) # <<>> THEN <<Bullet(Strip(Head(items)))>> ELSE <<>>)
         \o ListItems(Tail(items))

\* a paragraph inserted at the front of page_data instead of appended
ProcessParagraphAtFront(st, node) ==
    [st EXCEPT !.page_data = <<Strip(node.text)>> \o @]

ProcessParagraph(st, node) ==
    [st EXCEPT !.page_data = Append(@, Strip(node.text))]

ProcessList(st, doc, i) ==
    LET t == get_list_title(doc, i)
    IN  IF t.raised THEN st
        ELSE LET dup == DuplicateFound(st.page_data, t.title)
                 marked == IF dup THEN Promote(st.page_data, t.title) ELSE st.page_data
                 list_items == ListItems(doc[i].items)
             IN  [st EXCEPT !.page_data =
                     IF list_items = <<>> THEN marked
                     ELSE (IF dup THEN marked ELSE Append(marked, Heading(t.title)))
                          \o list_items]

\* the attributes in the order they are tried
Attributes(node) == <<node.src, node.dsrc, node.href>>

\* the first attribute that is set, without the test against processed_sources
FirstSet(node, seen) ==
    LET ok == {a \in 1..3 : <<node.src, node.dsrc, node.href>>[a] # <<>>}
    IN  IF ok = {} THEN 0 ELSE CHOOSE a \in ok : \A b \in ok : a <= b

\* the first attribute that is set and whose value is not yet in seen, 0 if none
FirstFresh(node, seen) ==
    LET ok == {a \in 1..3 : Attributes(node)[a] # <<>> /\ Attributes(node)[a] \notin seen}
    IN  IF ok = {} THEN 0 ELSE CHOOSE a \in ok : \A b \in ok : a <= b

ProcessMedia(st, node) ==
    LET a == FirstFresh(node, st.processed_sources)
    IN  IF a = 0 THEN st
        ELSE [page_data |-> Append(st.page_data, MediaBlock(node.tag, Attributes(node)[a])),
              processed_sources |-> st.processed_sources \cup {Attributes(node)[a]}]

\* the element at index i of doc raises where it is read and raises again
\* where the handlers of lines 119-124 read element.tag_name for their log
\* line: the exception leaves the loop for the handler of line 126
ElementAborts(doc, i) == doc[i].look = "gone"

\* the body of the loop over elements, for the element at index i of doc
ProcessElement(st, doc, i) ==
    IF doc[i].look = "error" THEN st
    ELSE IF doc[i].tag = "p" THEN ProcessParagraph(st, doc[i])
    ELSE IF doc[i].tag \in ListTags THEN ProcessList(st, doc, i)
    ELSE IF doc[i].tag \in MediaTags THEN ProcessMedia(st, doc[i])
    ELSE st

\* the indices of doc the descendant XPath selects, in document order
RECURSIVE ElementsFrom(_, _)
ElementsFrom(doc, i) ==
    IF i > Len(doc) THEN <<>>
    ELSE (IF doc[i].tag \in ExtractedTags THEN <<i>> ELSE <<>>) \o ElementsFrom(doc, i + 1)

Elements(doc) == ElementsFrom(doc, 1)

EmptyPass == [page_data |-> <<>>, processed_sources |-> {}]

RECURSIVE ExtractFrom(_, _, _)
ExtractFrom(st, doc, k) ==
    IF k > Len(Elements(doc)) THEN st
    ELSE IF ElementAborts(doc, Elements(doc)[k]) THEN st
    ELSE ExtractFrom(ProcessElement(st, doc, Elements(doc)[k]), doc, k + 1)

\* a pass that goes over the nodes of the page although the region was not found
extract_content_without_region(doc, found) ==
    ExtractFrom(EmptyPass, doc, 1).page_data

\* extract_content on a page: the content region is found or not
extract_content(doc, found) ==
    IF found THEN ExtractFrom(EmptyPass, doc, 1).page_data ELSE <<>>

(***************************************************************************)
(* State.                                                                  *)
(***************************************************************************)
VARIABLES
    \* one pass of extract_content
    doc,                 \* the nodes of the page, in document order
    region_found,        \* the lookup of "page-content" succeeded
    pos,                 \* index into Elements(doc) of the next element
    page_data,           \* the blocks emitted so far
    processed_sources,   \* the media sources emitted so far
    epc,                 \* "find", "walk", "done"
    \* one call of clean_page_title, and a second one on its result
    raw, cleaned, recleaned, cpc,
    \* the viewer
    pages,               \* the page sequence: [identity, doc] per page
    shown,               \* the page the document currently renders
    target,              \* the page the viewer has been navigated to
    \* one run of scrape_content
    pc,                  \* position in scrape_content
    driver,              \* self.driver: "none" or "attached"
    quits,               \* calls of driver.quit()
    page_title,          \* the identity read in this iteration
    content,             \* the blocks extracted in this iteration
    previous_title,      \* self.previous_title: <<>> is None, <<t>> is the text t
    module_number,       \* self.module_number
    md_file,             \* the strings written to revel_content.md, in order
    next_result,         \* how the last click_next_button ended
    result,              \* "running", "completed" (line 206) or "failed" (line 209)
    written_titles,      \* history: the titles write_content_to_file accepted
    \* one call of wait_and_find_element
    loc_outcomes,        \* what each attempt meets
    loc_attempt,         \* attempts made
    loc_sleeps,          \* time.sleep(1) calls made
    loc_result,          \* "pending", "found" (returned), the exception raised, "none"
    lpc                  \* "idle", "try", "done"

runVars == <<pages, shown, target, pc, driver, quits, page_title, content,
             previous_title, module_number, md_file, next_result, result,
             written_titles>>

extractVars == <<doc, region_found, pos, page_data, processed_sources, epc>>

cleanVars == <<raw, cleaned, recleaned, cpc>>

locVars == <<loc_outcomes, loc_attempt, loc_sleeps, loc_result, lpc>>

vars == <<extractVars, cleanVars, runVars, locVars>>

\* all sequences over S of length 0..n
SeqsUpTo(S, n) == UNION {[1..k -> S] : k \in 0..n}

(***************************************************************************)
(* Nodes the documents are built from.                                     *)
(***************************************************************************)
Node(tag, text, cls, desc, items, src, dsrc, href, look) ==
    [tag |-> tag, text |-> text, cls |-> cls, desc |-> desc, items |-> items,
     src |-> src, dsrc |-> dsrc, href |-> href, look |-> look]

Paragraph(text, cls, desc) == Node("p", text, cls, desc, <<>>, <<>>, <<>>, <<>>, "ok")

HeadingNode(text) == Node("h2", text, FALSE, 0, <<>>, <<>>, <<>>, <<>>, "ok")

ListNode(tag, items, look) == Node(tag, <<>>, FALSE, 0, items, <<>>, <<>>, <<>>, look)

MediaNode(tag, src, dsrc, href) == Node(tag, <<>>, FALSE, 0, <<>>, src, dsrc, href, "ok")

\* texts of the documents
KeyTerms == <<"K">>

UrlA == <<"a", ".", "p", "n", "g">>

UrlB == <<"b">>

ListKinds ==
    { Paragraph(<<" ", "K", " ">>, TRUE, 1),    \* a styled paragraph that is a heading
      Paragraph(<<"x">>, TRUE, 2),              \* a styled paragraph that is not
      HeadingNode(KeyTerms),
      ListNode("ul", <<<<"a">>>>, "ok"),
      ListNode("ol", <<<<"a">>, <<"b">>, <<"c">>, <<"d">>, <<"e">>>>, "ok"),
      ListNode("ul", <<<<" ">>>>, "ok"),
      ListNode("ul", <<<<"a">>>>, "stale"),
      ListNode("ol", <<<<"a">>>>, "timeout"),
      MediaNode("img", UrlA, <<>>, <<>>) }

MediaKinds ==
    { Paragraph(UrlA, TRUE, 1),                 \* a heading whose text is a source
      ListNode("ul", <<<<"a">>>>, "ok"),
      MediaNode("img", UrlA, <<>>, <<>>),
      MediaNode("img", <<>>, UrlA, <<>>),
      MediaNode("video", UrlA, UrlB, <<>>),
      MediaNode("audio", <<>>, <<>>, UrlB),
      MediaNode("source", <<>>, <<>>, <<>>),
      MediaNode("iframe", UrlB, <<>>, UrlA) }

\* documents with elements that fail while they are processed
FaultKinds ==
    { Paragraph(<<"x">>, FALSE, 0),
      Paragraph(KeyTerms, TRUE, 1),
      Node("p", <<"y">>, FALSE, 0, <<>>, <<>>, <<>>, <<>>, "gone"),
      Node("p", <<"y">>, FALSE, 0, <<>>, <<>>, <<>>, <<>>, "error"),
      ListNode("ul", <<<<"a">>>>, "ok"),
      ListNode("ol", <<<<"a">>>>, "error"),
      MediaNode("img", UrlA, <<>>, <<>>),
      Node("video", <<>>, FALSE, 0, <<>>, UrlB, <<>>, <<>>, "gone") }

(***************************************************************************)
(* extract_content as a process.                                           *)
(***************************************************************************)
CleanIdle == raw = <<>> /\ cleaned = <<>> /\ recleaned = <<>> /\ cpc = "idle"

LocIdle ==
    /\ loc_outcomes = <<>>
    /\ loc_attempt = 0
    /\ loc_sleeps = 0
    /\ loc_result = "pending"
    /\ lpc = "idle"

ExtractInitOver(kinds) ==
    /\ doc \in SeqsUpTo(kinds, MaxNodes)
    /\ region_found \in BOOLEAN
    /\ pos = 1
    /\ page_data = <<>>
    /\ processed_sources = {}
    /\ epc = "find"

\* lines 65-69: the content region and its elements are looked up
FindRegion ==
    /\ epc = "find"
    /\ epc' = IF region_found THEN "walk" ELSE "done"
    /\ UNCHANGED <<doc, region_found, pos, page_data, processed_sources, cleanVars, runVars, locVars>>

\* lines 71-124: one iteration of the loop over elements
Step(tags) ==
    /\ epc = "walk"
    /\ pos <= Len(Elements(doc))
    /\ doc[Elements(doc)[pos]].tag \in tags
    /\ ~ElementAborts(doc, Elements(doc)[pos])
    /\ LET st == ProcessElement([page_data |-> page_data,
                                 processed_sources |-> processed_sources],
                                doc, Elements(doc)[pos])
       IN  /\ page_data' = st.page_data
           /\ processed_sources' = st.processed_sources
    /\ pos' = pos + 1
    /\ UNCHANGED <<doc, region_found, epc, cleanVars, runVars, locVars>>

StepParagraph == Step({"p"})

StepList == Step(ListTags)

StepMedia == Step(MediaTags)

\* line 129
ReturnPageData ==
    /\ epc = "walk"
    /\ pos > Len(Elements(doc))
    /\ epc' = "done"
    /\ UNCHANGED <<doc, region_found, pos, page_data, processed_sources, cleanVars, runVars, locVars>>

ExtractNext == FindRegion \/ StepParagraph \/ StepList \/ StepMedia \/ ReturnPageData

\* lines 119-121 and 126-129: the handler of a stale element raises itself,
\* the page-level handler logs and the blocks emitted so far are returned
HandlerRaises ==
    /\ epc = "walk"
    /\ pos <= Len(Elements(doc))
    /\ ElementAborts(doc, Elements(doc)[pos])
    /\ epc' = "done"
    /\ UNCHANGED <<doc, region_found, pos, page_data, processed_sources, cleanVars, runVars, locVars>>

FaultNext == ExtractNext \/ HandlerRaises

RunIdle ==
    /\ pages = <<>>
    /\ shown = 1
    /\ target = 1
    /\ pc = "idle"
    /\ driver = "none"
    /\ quits = 0
    /\ page_title = <<>>
    /\ content = <<>>
    /\ previous_title = <<>>
    /\ module_number = 1
    /\ md_file = <<>>
    /\ next_result = "none"
    /\ result = "running"
    /\ written_titles = <<>>

ExtractInit == ExtractInitOver(ListKinds) /\ CleanIdle /\ RunIdle /\ LocIdle

MediaInit == ExtractInitOver(MediaKinds) /\ CleanIdle /\ RunIdle /\ LocIdle

SpecExtract == ExtractInit /\ [][ExtractNext]_vars

\* the documents of media elements, with a heading paragraph and a list
SpecMedia == MediaInit /\ [][ExtractNext]_vars

FaultInit == ExtractInitOver(FaultKinds) /\ CleanIdle /\ RunIdle /\ LocIdle

\* the documents with failing elements
SpecFaults == FaultInit /\ [][FaultNext]_vars

(***************************************************************************)
(* clean_page_title applied to a raw page identity, then to its own        *)
(* result.                                                                 *)
(***************************************************************************)
\* what raw page identities are built from
Tokens == { Reading, <<"R", "e", "a">>, <<"d", "i", "n", "g">>, <<"J", "A", "N">>,
            <<"J", "A", "N", " ", "5">>, <<" ">>, <<"5">>, <<"A">> }

RECURSIVE Flatten(_)
Flatten(ts) == IF ts = <<>> THEN <<>> ELSE Head(ts) \o Flatten(Tail(ts))

ExtractIdle ==
    /\ doc = <<>>
    /\ region_found = FALSE
    /\ pos = 1
    /\ page_data = <<>>
    /\ processed_sources = {}
    /\ epc = "idle"

CleanInit ==
    /\ raw \in {Flatten(ts) : ts \in SeqsUpTo(Tokens, MaxTokens)}
    /\ cleaned = <<>>
    /\ recleaned = <<>>
    /\ cpc = "call"
    /\ ExtractIdle
    /\ RunIdle
    /\ LocIdle

CleanOnce ==
    /\ cpc = "call"
    /\ cleaned' = clean_page_title(raw)
    /\ cpc' = "again"
    /\ UNCHANGED <<raw, recleaned, extractVars, runVars, locVars>>

CleanAgain ==
    /\ cpc = "again"
    /\ recleaned' = clean_page_title(cleaned)
    /\ cpc' = "done"
    /\ UNCHANGED <<raw, cleaned, extractVars, runVars, locVars>>

CleanNext == CleanOnce \/ CleanAgain

SpecClean == CleanInit /\ [][CleanNext]_vars

(***************************************************************************)
(* write_content_to_file                                                   *)
(***************************************************************************)
DigitChar(d) == <<"0", "1", "2", "3", "4", "5", "6", "7", "8", "9">>[d + 1]

\* str(n) for n >= 0
RECURSIVE Decimal(_)
Decimal(n) == IF n < 10 THEN <<DigitChar(n)>> ELSE Decimal(n \div 10) \o <<DigitChar(n % 10)>>

Blank == <<"\n", "\n">>

ModulePrefix == <<"#", " ", "M", "o", "d", "u", "l", "e", " ">>

\* a header that carries the counter after its increment
HeaderTextAfterIncrement(n, title) ==
    ModulePrefix \o Decimal(n + 1) \o <<":", " ">> \o title \o Blank

\* f"# Module {self.module_number}: {title}\n\n"
HeaderText(n, title) == ModulePrefix \o Decimal(n) \o <<":", " ">> \o title \o Blank

\* "\n\n".join(content)
RECURSIVE Join(_)
Join(blocks) ==
    IF blocks = <<>> THEN <<>>
    ELSE IF Len(blocks) = 1 THEN blocks[1]
    ELSE Head(blocks) \o Blank \o Join(Tail(blocks))

\* a header for every call
AlwaysHeader(title, prev) == TRUE

\* title != self.previous_title
NeedsHeader(title, prev) == prev # <<title>>

(***************************************************************************)
(* The viewer: pages with an identity and a document.                      *)
(***************************************************************************)
Space == <<" ">>

JanFive == <<"J", "A", "N", " ", "5">>

Overview == <<"O", "v", "e", "r", "v", "i", "e", "w">>

\* a placeholder that holds the content marker
UnknownReading == <<"U", "n", "k", "n", "o", "w", "n", " ", "R", "e", "a", "d", "i", "n", "g">>

UnknownTitle == <<"U", "n", "k", "n", "o", "w", "n", " ", "M", "o", "d", "u", "l", "e", " ", "T", "i", "t", "l", "e">>

Page(identity, d) == [identity |-> identity, doc |-> d]

OneParagraph == <<Paragraph(<<"x">>, FALSE, 0)>>

PageKinds ==
    { Page(Reading \o Space \o <<"A">>, OneParagraph),
      Page(JanFive \o Space \o Reading \o Space \o <<"A">>, OneParagraph),
      Page(Reading \o Space \o <<"B">>, OneParagraph),
      Page(Reading \o Space \o <<"B">>, <<>>),
      Page(Overview, OneParagraph) }

\* every page taken for a content page
AnyPageIsContent(title) == TRUE

\* "Reading" not in page_title, negated
IsContentPage(title) == Contains(title, Reading)

(***************************************************************************)
(* scrape_content                                                          *)
(***************************************************************************)
RunInit ==
    /\ pages \in UNION {[1..n -> PageKinds] : n \in 1..MaxPages}
    /\ shown = 1
    /\ target = 1
    /\ pc = "setup"
    /\ driver = "none"
    /\ quits = 0
    /\ page_title = <<>>
    /\ content = <<>>
    /\ previous_title = <<>>
    /\ module_number = 1
    /\ md_file = <<>>
    /\ next_result = "none"
    /\ result = "running"
    /\ written_titles = <<>>
    /\ ExtractIdle
    /\ CleanIdle
    /\ LocIdle

\* line 186: the session is attached, or setup_chrome_driver raises
SetupChromeDriver ==
    /\ pc = "setup"
    /\ \E ok \in BOOLEAN :
        /\ driver' = IF ok THEN "attached" ELSE "none"
        /\ pc' = IF ok THEN "open" ELSE "failed"
    /\ UNCHANGED <<pages, shown, target, quits, page_title, content, previous_title,
                   module_number, md_file, next_result, result, written_titles,
                   extractVars, cleanVars, locVars>>

\* line 188: the output file is opened, or open raises
OpenFile ==
    /\ pc = "open"
    /\ \E ok \in BOOLEAN : pc' = IF ok THEN "title" ELSE "failed"
    /\ UNCHANGED <<pages, shown, target, driver, quits, page_title, content,
                   previous_title, module_number, md_file, next_result, result,
                   written_titles, extractVars, cleanVars, locVars>>

\* lines 190-195: the identity of the rendered page is read, or the lookup
\* fails and the placeholder is returned; then the marker test
GetActivePageTitle ==
    /\ pc = "title"
    /\ \E ok \in BOOLEAN :
        page_title' = IF ok THEN Strip(pages[shown].identity) ELSE UnknownTitle
    /\ pc' = IF IsContentPage(page_title') THEN "extract" ELSE "next"
    /\ UNCHANGED <<pages, shown, target, driver, quits, content, previous_title,
                   module_number, md_file, next_result, result, written_titles,
                   extractVars, cleanVars, locVars>>

\* lines 197-199: extract_content on the rendered page
ExtractContent ==
    /\ pc = "extract"
    /\ \E found \in BOOLEAN :
        /\ region_found' = found
        /\ content' = extract_content(pages[shown].doc, found)
    /\ pc' = IF content' # <<>> THEN "write" ELSE "next"
    /\ UNCHANGED <<pages, shown, target, driver, quits, page_title, previous_title,
                   module_number, md_file, next_result, result, written_titles,
                   doc, pos, page_data, processed_sources, epc, cleanVars, locVars>>

\* lines 200-201 and 220-229.  fault names the file.write that raises:
\* "header" (line 223), "body" (line 227) or "none"
WriteContent ==
    /\ pc = "write"
    /\ LET title == clean_page_title(page_title)
           heads == NeedsHeader(title, previous_title)
       IN  \E fault \in {"none", "body"} \cup (IF heads THEN {"header"} ELSE {}) :
             IF fault = "header"
             THEN /\ pc' = "failed"
                  /\ UNCHANGED <<previous_title, module_number, md_file, written_titles>>
             ELSE /\ previous_title' = <<title>>
                  /\ module_number' = IF heads THEN module_number + 1 ELSE module_number
                  /\ written_titles' = Append(written_titles, title)
                  /\ md_file' = md_file
                        \o (IF heads THEN <<HeaderText(module_number, title)>> ELSE <<>>)
                        \o (IF fault = "none" THEN <<Join(content), Blank>> ELSE <<>>)
                  /\ pc' = IF fault = "none" THEN "next" ELSE "failed"
    /\ UNCHANGED <<pages, shown, target, driver, quits, page_title, content, next_result,
                   result, extractVars, cleanVars, locVars>>

\* the TimeoutException of the locator taken for a failure of the run
TimeoutFails(outcome) ==
    IF outcome = "clicked" THEN "title"
    ELSE IF outcome = "timeout" THEN "failed" ELSE "completed"

\* a loop without the break of lines 194-195 and 203-204
NeverBreaks(outcome) == "title"

\* where the loop goes after click_next_button
AfterNext(outcome) == IF outcome = "clicked" THEN "title" ELSE "completed"

\* lines 166-181 with lines 193-195 and 203-204: the button is in the rendered
\* page unless that page is the last one.  A click, once the previous
\* navigation has been rendered, navigates the viewer one page on; the
\* settle delay is over when the action ends, rendered or not.
ClickNextButton ==
    /\ pc = "next"
    /\ shown = target
    /\ \E outcome \in (IF shown < Len(pages) THEN {"clicked", "error"} ELSE {"timeout"}) :
        /\ next_result' = outcome
        /\ target' = IF outcome = "clicked" THEN target + 1 ELSE target
        /\ pc' = AfterNext(outcome)
    /\ UNCHANGED <<pages, shown, driver, quits, page_title, content, previous_title,
                   module_number, md_file, result, written_titles, extractVars, cleanVars, locVars>>

\* the viewer renders the page it was navigated to
Render ==
    /\ shown < target
    /\ shown' = shown + 1
    /\ UNCHANGED <<pages, target, pc, driver, quits, page_title, content, previous_title,
                   module_number, md_file, next_result, result, written_titles,
                   extractVars, cleanVars, locVars>>

\* line 206
LogCompleted ==
    /\ pc = "completed"
    /\ result' = "completed"
    /\ pc' = "finally"
    /\ UNCHANGED <<pages, shown, target, driver, quits, page_title, content,
                   previous_title, module_number, md_file, next_result, written_titles,
                   extractVars, cleanVars, locVars>>

\* lines 208-209
LogFailed ==
    /\ pc = "failed"
    /\ result' = "failed"
    /\ pc' = "finally"
    /\ UNCHANGED <<pages, shown, target, driver, quits, page_title, content,
                   previous_title, module_number, md_file, next_result, written_titles,
                   extractVars, cleanVars, locVars>>

\* the session released on the normal path only
QuitOnSuccess(d, r) == d # "none" /\ r = "completed"

\* if self.driver
ShouldQuit(d, r) == d # "none"

\* lines 210-212
Finally ==
    /\ pc = "finally"
    /\ quits' = IF ShouldQuit(driver, result) THEN quits + 1 ELSE quits
    /\ pc' = "done"
    /\ UNCHANGED <<pages, shown, target, driver, page_title, content, previous_title,
                   module_number, md_file, next_result, result, written_titles,
                   extractVars, cleanVars, locVars>>

Next ==
    \/ SetupChromeDriver
    \/ OpenFile
    \/ GetActivePageTitle
    \/ ExtractContent
    \/ WriteContent
    \/ ClickNextButton
    \/ Render
    \/ LogCompleted
    \/ LogFailed
    \/ Finally

Init == RunInit

Spec == Init /\ [][Next]_vars

\* the program is not suspended for ever, and the viewer renders in the end
\* the page it was sent to
FairSpec == Spec /\ WF_vars(Next)

(***************************************************************************)
(* Properties.                                                             *)
(***************************************************************************)
Marker == <<"#", "#", "#", " ">>

Range(f) == {f[k] : k \in DOMAIN f}

IsHeaderWrite(w) == OccursAt(w, ModulePrefix, 1)

\* the section headers written to the file, in order
Headers(file) == SelectSeq(file, IsHeaderWrite)

\* a sequence with every run of equal neighbours reduced to one element
RECURSIVE Collapse(_)
Collapse(q) ==
    IF Len(q) <= 1 THEN q
    ELSE IF q[1] = q[2] THEN Collapse(Tail(q))
    ELSE <<q[1]>> \o Collapse(Tail(q))

\* C1 as stated: every title that was written has exactly one
\* "# Module N: <title>" header in the whole file, also when a page with
\* another title was written between two pages with that title.
C1_OneHeaderPerTitle ==
    \A t \in Range(written_titles) :
        Cardinality({k \in 1..Len(md_file) :
                        \E n \in 1..module_number : md_file[k] = HeaderText(n, t)}) = 1

\* C1 amended: pages with equal cleaned titles share one header as long as no
\* page with another cleaned title is written between them; the headers of the
\* file are those of the runs of equal titles, numbered 1, 2, 3, ...
C1_OneHeaderPerRun ==
    LET runs == Collapse(written_titles)
    IN  /\ Len(Headers(md_file)) = Len(runs)
        /\ \A k \in 1..Len(runs) : Headers(md_file)[k] = HeaderText(k, runs[k])

\* two pages with different identities and the same cleaned title, then a page
\* with another title, written under two headers
C1_Witness ==
    /\ pc = "done"
    /\ Len(pages) = 3
    /\ pages[1].identity # pages[2].identity
    /\ Len(written_titles) = 3
    /\ written_titles[1] = written_titles[2]
    /\ written_titles[3] # written_titles[1]
    /\ Len(Headers(md_file)) = 2

\* C2 as stated: no emitted block ever carries the heading marker twice.
C2_SingleMarker ==
    \A k \in 1..Len(page_data) : ~OccursAt(page_data[k], Marker \o Marker, 1)

\* the two lists at i and i + 1 resolve to the same title and both have items
ConsecutiveSameTitle(i) ==
    /\ i + 1 <= Len(doc)
    /\ doc[i].tag \in ListTags
    /\ doc[i + 1].tag \in ListTags
    /\ ~get_list_title(doc, i).raised
    /\ ~get_list_title(doc, i + 1).raised
    /\ get_list_title(doc, i).title = get_list_title(doc, i + 1).title
    /\ ListItems(doc[i].items) # <<>>
    /\ ListItems(doc[i + 1].items) # <<>>

\* C3 as stated: for two consecutive lists with the same title T the returned
\* blocks hold exactly one header block for T, it is "### T", and the items of
\* both lists follow it in document order.
C3_OneHeaderForBothLists ==
    (epc = "done" /\ region_found) =>
        \A i \in 1..Len(doc) :
            ConsecutiveSameTitle(i) =>
                LET T == get_list_title(doc, i).title
                    both == ListItems(doc[i].items) \o ListItems(doc[i + 1].items)
                    heads == {k \in 1..Len(page_data) :
                                 OccursAt(page_data[k], Marker, 1) /\ Contains(page_data[k], T)}
                IN  /\ Cardinality(heads) = 1
                    /\ \A k \in heads :
                          /\ page_data[k] = Heading(T)
                          /\ \E m \in (k + 1)..Len(page_data) :
                                SubSeq(page_data, m, m + Len(both) - 1) = both

\* C4 as stated: a second pass of clean_page_title changes nothing.
C4_Idempotent == cpc = "done" => recleaned = cleaned

\* C4 amended: a second pass changes nothing when the first pass left neither
\* the marker nor a date token in its result.
C4_IdempotentOnCleanResult ==
    (cpc = "done" /\ ~Contains(cleaned, Reading) /\ ~HasDate(cleaned)) => recleaned = cleaned

\* an identity with the marker and a date token, both removed by the first
\* pass, and the second pass agreeing
C4_Witness ==
    /\ cpc = "done"
    /\ Contains(raw, Reading)
    /\ HasDate(raw)
    /\ cleaned = <<"A">>
    /\ recleaned = cleaned

\* C5: an iteration whose identity lacks the marker goes from the identity
\* read straight to the advance, with the output and the extracted blocks
\* untouched; extraction and writing only happen under an identity with the
\* marker.
C5_NonContentPageOnlyAdvances ==
    [][/\ (pc = "title" /\ pc' # "title" /\ ~Contains(page_title', Reading)) =>
              (pc' = "next" /\ md_file' = md_file /\ content' = content
                  /\ written_titles' = written_titles)
       /\ (pc' \in {"extract", "write"}) => Contains(page_title', Reading)
       /\ (pc = "next" /\ ~Contains(page_title, Reading)) =>
              (md_file' = md_file /\ content' = content /\ pc' \in {"next", "title", "completed"})
      ]_vars

\* the first page is "Overview": the viewer was navigated on, nothing was
\* extracted or written
C5_Witness ==
    /\ page_title = Overview
    /\ next_result = "clicked"
    /\ target = 2
    /\ md_file = <<>>
    /\ content = <<>>

Urls == {UrlA, UrlB}

\* the blocks of data that hold the media block of source u
CarriersOf(data, u) ==
    {k \in 1..Len(data) : \E t \in MediaTags : Contains(data[k], MediaBlock(t, u))}

\* C6: after every step of the pass a source that was resolved has exactly one
\* block, any other source has none, and the step of a media element adds at
\* most one block.
C6_SourceEmittedOnce ==
    [][/\ \A u \in Urls :
             Cardinality(CarriersOf(page_data', u))
                 = (IF u \in processed_sources' THEN 1 ELSE 0)
       /\ processed_sources' \subseteq Urls
       /\ (epc = "walk" /\ pos <= Len(Elements(doc))
               /\ doc[Elements(doc)[pos]].tag \in MediaTags) =>
              Len(page_data') <= Len(page_data) + 1
      ]_vars

\* scenario D: an image with src a.png, then an image with data-src a.png
C6_Witness ==
    /\ epc = "done"
    /\ Len(doc) = 2
    /\ doc[1] = MediaNode("img", UrlA, <<>>, <<>>)
    /\ doc[2] = MediaNode("img", <<>>, UrlA, <<>>)
    /\ page_data = <<ImgBlock(UrlA)>>

\* the blocks the node at index i of d can contribute
OwnBlocks(d, i) ==
    IF d[i].tag = "p" THEN {Strip(d[i].text)}
    ELSE IF d[i].tag \in ListTags
    THEN {Heading(get_list_title(d, i).title)} \cup {Bullet(Strip(x)) : x \in Range(d[i].items)}
    ELSE {MediaBlock(d[i].tag, a) : a \in Range(Attributes(d[i]))}

\* C7: a step of the pass keeps every emitted block at its place (a promotion
\* only prefixes it with the marker) and appends blocks of the element it
\* processes, so blocks stay in the document order of their nodes.
C7_DocumentOrder ==
    [][/\ Len(page_data') >= Len(page_data)
       /\ \A k \in 1..Len(page_data) :
             page_data'[k] \in {page_data[k], Heading(page_data[k])}
       /\ \A k \in (Len(page_data) + 1)..Len(page_data') :
             /\ epc = "walk"
             /\ page_data'[k] \in OwnBlocks(doc, Elements(doc)[pos])
      ]_vars

\* a heading paragraph, an image and a list: the paragraph promoted in place
C7_Witness ==
    /\ epc = "done"
    /\ Len(doc) = 3
    /\ page_data = <<Heading(KeyTerms), ImgBlock(UrlA), Bullet(<<"a">>)>>

\* C8: when the locate of the next control times out the page has been
\* processed, the loop goes to the normal completion, and from then on nothing
\* is read or written and the failure handler is not entered.
C8_TimeoutEndsNormally ==
    [][/\ (pc = "next" /\ next_result # "timeout" /\ next_result' = "timeout") =>
              /\ pc' = "completed"
              /\ (Contains(page_title, Reading) /\ content # <<>>) =>
                    /\ Len(md_file) >= 2
                    /\ md_file[Len(md_file) - 1] = Join(content)
       /\ next_result' = "timeout" =>
              /\ pc' \in {"completed", "finally", "done"}
              /\ result' # "failed"
              /\ md_file' = md_file
              /\ page_title' = page_title
              /\ content' = content
              /\ (pc' = "done" => result' = "completed")
      ]_vars

\* a run that wrote a page and ended on the timeout of the next control
C8_Witness ==
    /\ pc = "done"
    /\ next_result = "timeout"
    /\ result = "completed"
    /\ md_file # <<>>

\* C9: at the end of the run driver.quit() was called once when a session was
\* attached and not at all otherwise, and it is not called before the end.
C9_SessionReleased ==
    /\ pc = "done" => quits = (IF driver = "attached" THEN 1 ELSE 0)
    /\ quits > 0 => pc = "done"

\* a run that failed inside the page loop, after a header was written
C9_Witness ==
    /\ pc = "done"
    /\ result = "failed"
    /\ md_file # <<>>
    /\ quits = 1

\* no governing heading candidate precedes the list at index i
NoCandidate(i) ==
    \/ PrecedingStyled(doc, i) = {}
    \/ /\ doc[Nearest(PrecedingStyled(doc, i))].desc # 1
       /\ PrecedingHeadings(doc, i) = {}

\* C10 as stated: a list with no candidate before it, or whose lookup times
\* out or is stale, gets the default title, no failure leaves get_list_title,
\* and its non-empty items are emitted.
C10_DefaultTitle ==
    (epc = "done" /\ region_found) =>
        \A i \in 1..Len(doc) :
            (doc[i].tag \in ListTags /\ (NoCandidate(i) \/ doc[i].look # "ok")) =>
                /\ ~get_list_title(doc, i).raised
                /\ get_list_title(doc, i).title = DefaultListTitle
                /\ ListItems(doc[i].items) # <<>> =>
                      \E m \in 1..Len(page_data) :
                          SubSeq(page_data, m, m + Len(ListItems(doc[i].items)) - 1)
                              = ListItems(doc[i].items)

\* C11 as stated: a failure while one node is processed does not end the
\* pass: every element of the region is visited and the text of every
\* paragraph that does not fail is in the returned blocks.
C11_FailureSkipsOnlyItsNode ==
    (epc = "done" /\ region_found) =>
        /\ pos = Len(Elements(doc)) + 1
        /\ \A i \in 1..Len(doc) :
              (doc[i].tag = "p" /\ doc[i].look = "ok") =>
                  \E k \in 1..Len(page_data) : Contains(page_data[k], Strip(doc[i].text))

(***************************************************************************)
(* wait_and_find_element as a process: one attempt per step.               *)
(***************************************************************************)
Outcomes == {"found", "stale", "timeout", "nosuch"}

\* the last attempt takes a stale reference for one more retry
VerdictNeverLast(o, attempt, retries) ==
    IF o = "found" THEN "return"
    ELSE IF o = "stale" /\ attempt # retries THEN "retry"
    ELSE "raise"

\* what attempt number attempt (from 0) does with what it meets: the element
\* is returned, the exception is raised to the caller, or the loop sleeps and
\* goes on
Verdict(o, attempt, retries) ==
    IF o = "found" THEN "return"
    ELSE IF o = "stale" /\ attempt # retries - 1 THEN "retry"
    ELSE "raise"

LocInit ==
    /\ loc_outcomes \in [1..Retries -> Outcomes]
    /\ loc_attempt = 0
    /\ loc_sleeps = 0
    /\ loc_result = "pending"
    /\ lpc = "try"
    /\ ExtractIdle
    /\ CleanIdle
    /\ RunIdle

\* lines 41-57: one iteration of the for loop, or its end (the call returns
\* None) when range(retries) is used up
LocateAttempt ==
    /\ lpc = "try"
    /\ IF loc_attempt >= Retries
       THEN /\ loc_result' = "none"
            /\ lpc' = "done"
            /\ UNCHANGED <<loc_attempt, loc_sleeps>>
       ELSE LET o == loc_outcomes[loc_attempt + 1]
                v == Verdict(o, loc_attempt, Retries)
            IN  /\ loc_attempt' = loc_attempt + 1
                /\ loc_sleeps' = IF v = "retry" THEN loc_sleeps + 1 ELSE loc_sleeps
                /\ loc_result' = IF v = "retry" THEN loc_result ELSE o
                /\ lpc' = IF v = "retry" THEN "try" ELSE "done"
    /\ UNCHANGED <<loc_outcomes, extractVars, cleanVars, runVars>>

LocNext == LocateAttempt

SpecLocate == LocInit /\ [][LocNext]_vars

\* C12: the locator makes at most Retries attempts; every attempt before the
\* last one made met a stale reference and was followed by one sleep; the last
\* one either found the element (returned), or timed out (raised at once), or
\* was the stale attempt number Retries (raised); the call agrees with
\* wait_and_find_element.
C12_BoundedRetries ==
    /\ loc_attempt <= Retries
    /\ \A k \in 1..(loc_attempt - 1) : loc_outcomes[k] = "stale"
    /\ lpc = "try" =>
          /\ loc_attempt < Retries
          /\ loc_sleeps = loc_attempt
          /\ \A k \in 1..loc_attempt : loc_outcomes[k] = "stale"
    /\ lpc = "done" =>
          /\ loc_attempt >= 1
          /\ loc_sleeps = loc_attempt - 1
          /\ loc_result = loc_outcomes[loc_attempt]
          /\ loc_result = "stale" => loc_attempt = Retries
          /\ wait_and_find_element(loc_outcomes, Retries)
                = [res |-> loc_result, attempts |-> loc_attempt]

\* four stale attempts with their sleeps, then the fifth is stale and raises
C12_Witness ==
    /\ lpc = "done"
    /\ loc_attempt = Retries
    /\ loc_sleeps = Retries - 1
    /\ loc_result = "stale"

\* C13: when the content region of a content page is not found, the pass
\* returns no block, the loop goes to the advance without writing (file,
\* section key and counter unchanged), and the advance is then attempted.
C13_RegionNotFound ==
    [][/\ (pc = "extract" /\ pc' # "extract" /\ ~region_found') =>
              /\ content' = <<>>
              /\ pc' = "next"
              /\ md_file' = md_file
              /\ previous_title' = previous_title
              /\ module_number' = module_number
       /\ (pc = "next" /\ pc' # "next") =>
              /\ next_result' \in {"clicked", "error", "timeout"}
              /\ md_file' = md_file
              /\ previous_title' = previous_title
              /\ module_number' = module_number]_vars

\* the region of the first page, a content page with a paragraph, was not
\* found: nothing is in the file and the viewer was sent to the second page
C13_Witness ==
    /\ pc = "title"
    /\ ~region_found
    /\ IsContentPage(page_title)
    /\ pages[1].doc = OneParagraph
    /\ content = <<>>
    /\ md_file = <<>>
    /\ next_result = "clicked"
    /\ target = 2

\* the header h carries the number k
HeaderNumbered(h, k) == OccursAt(h, ModulePrefix \o Decimal(k) \o <<":", " ">>, 1)

SectionState ==
    LET heads == Headers(md_file)
    IN  /\ module_number = 1 + Len(heads)
        /\ \A k \in 1..Len(heads) : HeaderNumbered(heads[k], k)
        /\ IF heads = <<>> THEN previous_title = <<>>
           ELSE /\ previous_title # <<>>
                /\ heads[Len(heads)] = HeaderText(Len(heads), previous_title[1])

\* C14: in every state the counter is 1 plus the number of headers in the
\* file, header number k carries the number k, and the section key is the
\* title of the latest header (None while there is none); a call of
\* write_content_to_file appends a header exactly when its title differs from
\* the section key (a call whose header write raises appends nothing and
\* changes nothing), and never more than one.
C14_CounterAndHeaders ==
    /\ []SectionState
    /\ [][(pc = "write" /\ pc' # "write") =>
            LET title == clean_page_title(page_title)
                added == Len(Headers(md_file')) - Len(Headers(md_file))
            IN  /\ added \in {0, 1}
                /\ added = 1 => previous_title # <<title>>
                /\ (previous_title # <<title>> /\ written_titles' # written_titles)
                      => added = 1
                /\ written_titles' # written_titles => previous_title' = <<title>>
                /\ written_titles' = written_titles =>
                      /\ previous_title # <<title>>
                      /\ md_file' = md_file
                      /\ module_number' = module_number
                      /\ previous_title' = previous_title]_vars

\* two headers in the file, the third page written under the second header
C14_Witness ==
    /\ module_number = 3
    /\ Len(Headers(md_file)) = 2
    /\ Len(written_titles) = 3
    /\ written_titles[2] = written_titles[3]
    /\ written_titles[1] # written_titles[2]
    /\ previous_title = <<written_titles[3]>>

\* the element the walk is at is a list whose title was resolved
AtTitledList ==
    /\ epc = "walk"
    /\ pos <= Len(Elements(doc))
    /\ doc[Elements(doc)[pos]].tag \in ListTags
    /\ ~get_list_title(doc, Elements(doc)[pos]).raised

\* the title occurs in one of the last Lookback blocks of page_data
InWindow(title) ==
    \E k \in 1..Len(page_data) :
        k > Len(page_data) - Lookback /\ Contains(page_data[k], title)

\* C15: a list with a non-empty item whose title occurs in none of the last 5
\* blocks emitted so far (wherever else it occurs) appends "### <title>" and
\* then its items; the blocks emitted before are all unchanged.
C15_WindowIsLastFive ==
    [][(/\ AtTitledList
        /\ pos' = pos + 1
        /\ ~InWindow(get_list_title(doc, Elements(doc)[pos]).title)
        /\ ListItems(doc[Elements(doc)[pos]].items) # <<>>)
       => page_data' = page_data
                         \o <<Heading(get_list_title(doc, Elements(doc)[pos]).title)>>
                         \o ListItems(doc[Elements(doc)[pos]].items)]_vars

\* the title stands in the block 6 positions back; the second list got a
\* header of its own
C15_Witness ==
    /\ epc = "done"
    /\ Len(page_data) = 8
    /\ Contains(page_data[1], KeyTerms)
    /\ \A k \in 2..6 : ~Contains(page_data[k], KeyTerms)
    /\ page_data[7] = Heading(KeyTerms)
    /\ page_data[8] = Bullet(<<"a">>)

\* C16: every run over a finite page sequence whose last page has no next
\* control reaches its end; click_next_button either clicks once (the viewer
\* is sent one page on and the loop goes round) or ends the loop, and the
\* viewer is never sent beyond the last page.
C16_Terminates ==
    /\ <>(pc = "done")
    /\ [](target <= Len(pages))
    /\ [][(pc = "next" /\ pc' # "next") =>
             \/ pc' = "title" /\ next_result' = "clicked" /\ target' = target + 1
             \/ pc' = "completed" /\ next_result' # "clicked" /\ target' = target]_vars

\* a run that went through three pages and stopped on the last one
C16_Witness ==
    /\ pc = "done"
    /\ result = "completed"
    /\ Len(pages) = 3
    /\ target = 3
    /\ shown = 3
    /\ next_result = "timeout"

\* C17 as stated: page loads and extraction never overlap: whenever the
\* loop reads the identity or the content of the page, the viewer has
\* rendered the page it was last sent to, so what is read is never the page
\* that was left.
C17_ReadsNavigatedPage ==
    [][(\/ pc = "title" /\ pc' # "title" /\ page_title' # UnknownTitle
        \/ pc = "extract" /\ pc' # "extract" /\ region_found') => shown = target]_vars

\* C18 as stated: when the title of a list occurs in one of the last 5
\* blocks, the block that gets the "### " marker is one of those 5 and holds
\* the title, and every block before the window is unchanged.
C18_PromotionInsideWindow ==
    [][(/\ AtTitledList
        /\ pos' = pos + 1
        /\ InWindow(get_list_title(doc, Elements(doc)[pos]).title))
       => /\ \A k \in 1..Len(page_data) :
                k <= Len(page_data) - Lookback => page_data'[k] = page_data[k]
          /\ \E k \in 1..Len(page_data) :
                /\ k > Len(page_data) - Lookback
                /\ Contains(page_data[k], get_list_title(doc, Elements(doc)[pos]).title)
                /\ page_data'[k] = Heading(page_data[k])]_vars

\* C19: when the lookup of the active page fails the loop gets the
\* placeholder, which does not hold the content marker: the run goes on, the
\* page is not extracted, nothing is written, the section key and the counter
\* stay, and the next step is the attempt to advance.
C19_UnreadableIdentity ==
    [][/\ (pc = "title" /\ pc' # "title" /\ page_title' = UnknownTitle) =>
              /\ ~Contains(page_title', Reading)
              /\ pc' = "next"
              /\ result' = "running"
              /\ content' = content
              /\ md_file' = md_file
              /\ previous_title' = previous_title
              /\ module_number' = module_number
       /\ (pc = "next" /\ pc' # "next" /\ page_title = UnknownTitle) =>
              /\ next_result' \in {"clicked", "error", "timeout"}
              /\ pc' \in {"title", "completed"}
              /\ content' = content
              /\ md_file' = md_file
              /\ previous_title' = previous_title
              /\ module_number' = module_number]_vars

\* the identity of the first page, a content page, could not be read: the
\* viewer was sent on and the file is empty
C19_Witness ==
    /\ pc = "title"
    /\ page_title = UnknownTitle
    /\ Contains(pages[1].identity, Reading)
    /\ next_result = "clicked"
    /\ target = 2
    /\ result = "running"
    /\ md_file = <<>>

====
